---- MODULE Spec2Model ----
(***************************************************************************)
(* Model of the fetch / quick-filter / validate pipeline of                *)
(* src/update_proxies.py (class ProxyScraper and the __main__ driver).     *)
(*                                                                         *)
(* Representation of the data:                                             *)
(*  - a JSON value (and so any field of a Proxy that comes from a source)  *)
(*    is a record [t, v]: t is the kind, v a sequence of integers:         *)
(*      "absent"  the key is missing         "null"  JSON null             *)
(*      "str4"    a string of dot-separated digit runs, v = their values   *)
(*                ("1.2.3.4" is <<1,2,3,4>>, "999.1.1.1" is <<999,1,1,1>>) *)
(*      "text"    any other non-empty string                               *)
(*      "numstr"  a string that is one digit run, v = <<value>>            *)
(*      "int"     a JSON integer, v = <<value>>                            *)
(*      "inf"     a JSON float beyond the double range (1e999, Infinity)   *)
(*  - a digit run is represented by its value, written without leading     *)
(*    zeros, so "at most three digits" is "value <= 999";                  *)
(*  - a text line is a sequence of tokens (digit run, ".", ":", blank,     *)
(*    other text);                                                         *)
(*  - the registry self.proxies (an insertion-ordered dict keyed by        *)
(*    Proxy.address) is the sequence of its values in insertion order.     *)
(*                                                                         *)
(* Threads: the driver (the main thread) and the tasks of the three        *)
(* ThreadPoolExecutors. The pools have MAX_WORKERS = 100 threads, more     *)
(* than the tasks modelled, so a submitted task is runnable at once. A     *)
(* step of a task is one access to shared state (the registry, a Proxy)    *)
(* together with the thread-local computation that leads to it.            *)
(* The outcome of a network operation is chosen when it is first asked for *)
(* and is the same whenever it is asked for again.                         *)
(*                                                                         *)
(* Specifications:                                                         *)
(*   Spec, FairSpec, SpecRuns  the whole pipeline on three fixed sources   *)
(*   SpecLines     the line parser on drawn text bodies                    *)
(*   SpecJson      the structured parser on drawn JSON bodies              *)
(*   SpecRetry     the request of a source, attempt by attempt             *)
(*   SpecValidate  validate_proxies on drawn registries                    *)
(*   SpecPy        src/proxies.py (fetch_proxies, get_proxies)             *)
(***************************************************************************)
EXTENDS Integers, Sequences, FiniteSets, TLC

VARIABLES
    pc,            \* stage of the driver: Idle, Fetching, QuickFiltering, Validating, Done
    body,          \* body[s]: what source s answers (input, fixed during a run)
    srcEnv,        \* srcEnv[s]: outcome of session.get for source s ("unknown" until asked)
    probeEnv,      \* set of [k, r]: outcome of a TCP connect to endpoint k, once asked
    valEnv,        \* set of [k, proto, r]: outcome of a GET through k as proto://k, once asked
    wpc,           \* wpc[s]: position of the fetch worker running scrape_source(sources[s])
    widx,          \* widx[s]: index of the element or line the worker handles next
    wcount,        \* wcount[s]: the local variable count of scrape_source
    wcur,          \* wcur[s]: <<proxy>> while the worker is inside _add_proxy, else <<>>
    werr,          \* werr[s]: scrape_source logged "Error scraping" (its outer except ran)
    proxies,       \* self.proxies: its values, in insertion order
    qsnap,         \* future_to_proxy of quick_filter_proxies: the proxies given to the probes
    qstate,        \* qstate[i]: state of the probe task of qsnap[i]
    valid_proxies, \* the local dict valid_proxies of quick_filter_proxies
    vstart,        \* validate_proxies: number of proxies of proxy_list in finished batches
    vstate,        \* vstate[i]: state of the validation task of proxy_list[i]
    now,           \* the clock read by datetime.utcnow()
    artifacts,     \* what save_results wrote: [written, working, all]
    lastReg,       \* history: the candidates stored by _add_proxy, latest per address
    validated,     \* history: validated[i]: the responses received for proxy_list[i]
    run,           \* number of the current run of the job
    firstWorking,  \* the working set the previous run wrote
    attempts,      \* history: attempts[s]: what each attempt of session.get for s ended in
    pypc,          \* proxies.py: position of its main program
    pyfut,         \* proxies.py: pyfut[s]: state of the future of fetch_proxies(SOURCES[s])
    pyres,         \* proxies.py: pyres[s]: the set that fetch_proxies(SOURCES[s]) returned
    pyproxies,     \* proxies.py: the local set proxies of get_proxies
    pytxt          \* proxies.py: the entries written to proxies.txt

\* the state of proxies.py, a program of its own
pyvars == <<pypc, pyfut, pyres, pyproxies, pytxt>>

vars == <<pc, body, srcEnv, probeEnv, valEnv, wpc, widx, wcount, wcur, werr, proxies,
          qsnap, qstate, valid_proxies, vstart, vstate, now, artifacts, lastReg,
          validated, run, firstWorking, attempts, pyvars>>

-----------------------------------------------------------------------------
(* Bounds of the model *)

\* number of source URLs of self.sources that are modelled
NumSources == 3
\* number of times the batch job is invoked, one after the other
MaxRuns == 2
\* longest text body (in lines) drawn for the line parser
MaxLines == 2

\* VALIDATION_BATCH_SIZE (500 in the program), scaled down so that a registry of a
\* few proxies is validated in more than one batch
VALIDATION_BATCH_SIZE == 2

Sources == 1..NumSources

-----------------------------------------------------------------------------
(* JSON values and text lines *)

JV(t, v) == [t |-> t, v |-> v]
Absent == JV("absent", <<>>)
Null == JV("null", <<>>)
Str4(a, b, c, d) == JV("str4", <<a, b, c, d>>)
Text == JV("text", <<>>)
NumStr(n) == JV("numstr", <<n>>)
JInt(n) == JV("int", <<n>>)
JInf == JV("inf", <<>>)

\* Python truthiness of a JSON value (None, 0 and a missing key are falsy;
\* the strings modelled are non-empty)
Truthy(j) ==
    CASE j.t = "absent" -> FALSE
      [] j.t = "null" -> FALSE
      [] j.t = "int" -> j.v[1] # 0
      [] OTHER -> TRUE

Num(n) == [t |-> "num", v |-> n]
Dot == [t |-> "dot", v |-> 0]
Colon == [t |-> "colon", v |-> 0]
Sp == [t |-> "sp", v |-> 0]
Other == [t |-> "other", v |-> 0]

\* the line "a.b.c.d:p"
IpPortLine(a, b, c, d, p) ==
    <<Num(a), Dot, Num(b), Dot, Num(c), Dot, Num(d), Colon, Num(p)>>

RECURSIVE LStrip(_)
LStrip(l) == IF l # <<>> /\ Head(l).t = "sp" THEN LStrip(Tail(l)) ELSE l

RECURSIVE RStrip(_)
RStrip(l) ==
    IF l # <<>> /\ l[Len(l)].t = "sp" THEN RStrip(SubSeq(l, 1, Len(l) - 1)) ELSE l

\* str.strip()
strip(l) == RStrip(LStrip(l))

-----------------------------------------------------------------------------
(* Proxy *)

\* the dataclass Proxy with its defaults
Proxy(ip, port) ==
    [ip |-> ip, port |-> port, protocol |-> "http", country |-> "", anonymity |-> "",
     speed |-> 0, last_checked |-> 0, working |-> FALSE]

\* Proxy.address, f"{ip}:{port}". The port is rendered as a digit run without a colon,
\* so the text after the last colon is the port and the text before it the ip: two
\* proxies have the same address exactly when they have the same ip and port.
address(p) == <<p.ip, p.port>>

\* ipaddress.ip_address(x) returns (TRUE) or raises ValueError (FALSE). A str must be
\* four decimal octets; an int is taken as the packed address (every integer the model
\* can hold is below 2^32); everything else is refused.
ip_address(x) ==
    CASE x.t = "str4" -> Len(x.v) = 4 /\ \A i \in 1..4 : x.v[i] <= 255
      [] x.t = "int" -> x.v[1] >= 0
      [] OTHER -> FALSE

\* IpPortMatch without the anchor at the end: the pattern followed by anything
IpPortMatchPrefix(text) ==
    /\ Len(text) >= 9
    /\ \A i \in {1, 3, 5, 7} : text[i].t = "num" /\ text[i].v <= 999
    /\ \A i \in {2, 4, 6} : text[i].t = "dot"
    /\ text[8].t = "colon"
    /\ text[9].t = "num"

\* re.match(r'^(\d{1,3}\.\d{1,3}\.\d{1,3}\.\d{1,3}):(\d+)$', text)
IpPortMatch(text) ==
    /\ Len(text) = 9
    /\ \A i \in {1, 3, 5, 7} : text[i].t = "num" /\ text[i].v <= 999
    /\ \A i \in {2, 4, 6} : text[i].t = "dot"
    /\ text[8].t = "colon"
    /\ text[9].t = "num"

\* _parse_proxy_from_text: <<proxy>> or <<>> (None)
_parse_proxy_from_text(text) ==
    IF text = <<>> THEN <<>>
    ELSE IF IpPortMatch(text)
         THEN LET ip == Str4(text[1].v, text[3].v, text[5].v, text[7].v)
                  port == text[9].v
              IN  IF ip_address(ip) /\ 1 <= port /\ port <= 65535
                  THEN <<Proxy(ip, port)>>
                  ELSE <<>>
         ELSE <<>>

\* the checks of _add_proxy: TRUE when the proxy is stored
AddProxyAccepts(p) == ip_address(p.ip) /\ 1 <= p.port /\ p.port <= 65535

HasAddress(reg, a) == \E i \in 1..Len(reg) : address(reg[i]) = a

\* DictSet with a known key left as it is (dict.setdefault)
DictSetKeepFirst(reg, p) ==
    IF HasAddress(reg, address(p)) THEN reg ELSE Append(reg, p)

\* dict[key] = value on an insertion-ordered dict given by its values: a known key
\* keeps its place and gets the new value, a new key goes to the end
DictSet(reg, p) ==
    IF HasAddress(reg, address(p))
    THEN [i \in 1..Len(reg) |-> IF address(reg[i]) = address(p) THEN p ELSE reg[i]]
    ELSE Append(reg, p)

-----------------------------------------------------------------------------
(* Structured (JSON) responses *)

\* One element of a JSON sequence. dict: the element is a JSON object. ip, host,
\* addr, port, speed are JSON values; protocol, country, anonymity are strings with
\* NoKey for a missing key; last_checked is a timestamp, 0 for a missing key.
NoKey == "<no key>"

Item(ip, port) ==
    [dict |-> TRUE, ip |-> ip, host |-> Absent, addr |-> Absent, port |-> port,
     protocol |-> NoKey, country |-> NoKey, anonymity |-> NoKey, speed |-> Absent,
     last_checked |-> 0]

\* dict.get(key, default) for the string fields
Get(value, default) == IF value = NoKey THEN default ELSE value

\* the result of a conversion: the value, or the exception it raises
Conv(r, v) == [r |-> r, v |-> v]

\* int(port), for the kinds of value that pass `if ip and port`
int(j) ==
    CASE j.t = "int" -> Conv("ok", j.v[1])
      [] j.t = "numstr" -> Conv("ok", j.v[1])
      [] j.t = "str4" -> Conv("ValueError", 0)
      [] j.t = "text" -> Conv("ValueError", 0)
      [] j.t = "inf" -> Conv("OverflowError", 0)

\* float(item.get("speed", 0))
float(j) ==
    CASE j.t = "absent" -> Conv("ok", 0)
      [] j.t = "int" -> Conv("ok", j.v[1])
      [] j.t = "numstr" -> Conv("ok", j.v[1])
      [] j.t = "str4" -> Conv("ValueError", 0)
      [] j.t = "text" -> Conv("ValueError", 0)
      [] j.t = "null" -> Conv("TypeError", 0)

\* item.get("ip") or item.get("host") or item.get("addr")
ItemIp(item) ==
    IF Truthy(item.ip) THEN item.ip
    ELSE IF Truthy(item.host) THEN item.host
    ELSE item.addr

\* The body of `for item in ...` (lines 136-153 and 159-176), up to the call of
\* _add_proxy: "skip" (the element is passed over, count untouched), "abort" (an
\* exception that `except (ValueError, TypeError)` does not catch leaves the loops
\* for the outer handler of scrape_source), or "add" with the Proxy built.
ItemStep(item) ==
    IF ~item.dict THEN [r |-> "skip", p |-> <<>>]
    ELSE IF ~(Truthy(ItemIp(item)) /\ Truthy(item.port)) THEN [r |-> "skip", p |-> <<>>]
    ELSE LET port == int(item.port)
             speed == float(item.speed)
         IN  IF port.r = "OverflowError" THEN [r |-> "abort", p |-> <<>>]
             ELSE IF port.r # "ok" \/ speed.r # "ok" THEN [r |-> "skip", p |-> <<>>]
             ELSE [r |-> "add",
                   p |-> <<[ip |-> ItemIp(item), port |-> port.v,
                            protocol |-> Get(item.protocol, "http"),
                            country |-> Get(item.country, ""),
                            anonymity |-> Get(item.anonymity, ""),
                            speed |-> speed.v,
                            last_checked |-> item.last_checked,
                            working |-> FALSE]>>]

\* A JSON document: shape "list" (items), "dict" (the values under the four container
\* keys; each [list, items], list = FALSE when the key is missing or no sequence),
\* "other" (a scalar) or "invalid" (response.json() raises JSONDecodeError).
JsonList(items) ==
    [shape |-> "list", items |-> items, data |-> <<>>, proxies |-> <<>>,
     itemsKey |-> <<>>, results |-> <<>>]
JsonDict(data, prox, itemsKey, results) ==
    [shape |-> "dict", items |-> <<>>, data |-> data, proxies |-> prox,
     itemsKey |-> itemsKey, results |-> results]
JsonInvalid ==
    [shape |-> "invalid", items |-> <<>>, data |-> <<>>, proxies |-> <<>>,
     itemsKey |-> <<>>, results |-> <<>>]

\* The elements the loops of lines 134-176 visit, in order: the sequence itself, or
\* the sequences under "data", "proxies", "items", "results" one after the other.
\* (A missing key or a value that is no sequence is given as <<>>.)
JsonElements(doc) ==
    CASE doc.shape = "list" -> doc.items
      [] doc.shape = "dict" -> doc.data \o doc.proxies \o doc.itemsKey \o doc.results
      [] OTHER -> <<>>

\* A response: ctype "json" when "json" is in the Content-Type header; json is what
\* response.json() gives; lines is response.text.split('\n').
Response(ctype, json, lines) == [ctype |-> ctype, json |-> json, lines |-> lines]

-----------------------------------------------------------------------------
(* The responses of the sources *)

\* "1.2.3.4:8080\nnot-a-proxy\n999.1.1.1:80\n 5.6.7.8:3128 " as text/plain
TextBody ==
    Response("text", JsonInvalid,
             << IpPortLine(1, 2, 3, 4, 8080),
                <<Other>>,
                IpPortLine(999, 1, 1, 1, 80),
                <<Sp>> \o IpPortLine(5, 6, 7, 8, 3128) \o <<Sp>> >>)

\* [{"ip":"1.2.3.4","port":8080,"protocol":"socks4","country":"US",
\*   "anonymity":"elite","speed":3,"last_checked":"..."},
\*  {"host":"bad"}, {"ip":16909060,"port":80}, {"ip":"9.9.9.9","port":"80a"},
\*  {"ip":"9.9.9.9","port":1e999}, {"ip":"9.9.9.9","port":"3128"}]
\* as application/json
ListBody ==
    Response("json",
             JsonList(<< [Item(Str4(1, 2, 3, 4), JInt(8080)) EXCEPT
                             !.protocol = "socks4", !.country = "US",
                             !.anonymity = "elite", !.speed = JInt(3),
                             !.last_checked = 1],
                         [Item(Absent, Absent) EXCEPT !.host = Text],
                         Item(JInt(16909060), JInt(80)),
                         Item(Str4(9, 9, 9, 9), Text),
                         Item(Str4(9, 9, 9, 9), JInf),
                         Item(Str4(9, 9, 9, 9), NumStr(3128)) >>),
             << <<Other>> >>)

\* {"data":[{"addr":"5.6.7.8","port":"3128","protocol":"https"}],
\*  "results":[{"ip":"300.1.1.1","port":80}]} as application/json
DictBody ==
    Response("json",
             JsonDict(<< [Item(Absent, NumStr(3128)) EXCEPT
                             !.addr = Str4(5, 6, 7, 8), !.protocol = "https"] >>,
                      <<>>, <<>>,
                      << Item(Str4(300, 1, 1, 1), JInt(80)) >>),
             << <<Other>> >>)

\* "5.6.7.8:3128" (a proxy other sources list too) served with a JSON content
\* type: response.json() fails
MislabelledBody ==
    Response("json", JsonInvalid, << IpPortLine(5, 6, 7, 8, 3128) >>)

\* what the s-th source answers when the request succeeds
SourceBody(s) ==
    CASE s = 1 -> TextBody
      [] s = 2 -> ListBody
      [] s = 3 -> DictBody
      [] OTHER -> MislabelledBody

-----------------------------------------------------------------------------
(* State *)

NoArtifacts == [written |-> FALSE, working |-> {}, all |-> {}]

\* the state ProxyScraper() and the driver start a run from
Fresh ==
    /\ pc = "Idle"
    /\ wpc = [s \in Sources |-> "idle"]
    /\ widx = [s \in Sources |-> 0]
    /\ wcount = [s \in Sources |-> 0]
    /\ wcur = [s \in Sources |-> <<>>]
    /\ werr = [s \in Sources |-> FALSE]
    /\ proxies = <<>>
    /\ qsnap = <<>>
    /\ qstate = <<>>
    /\ valid_proxies = <<>>
    /\ vstart = 0
    /\ vstate = <<>>
    /\ artifacts = NoArtifacts
    /\ lastReg = {}
    /\ validated = <<>>
    /\ attempts = [s \in Sources |-> <<>>]

\* proxies.py before its main program has run
PyFresh ==
    /\ pypc = "Idle"
    /\ pyfut = [s \in Sources |-> "none"]
    /\ pyres = [s \in Sources |-> {}]
    /\ pyproxies = {}
    /\ pytxt = {}

Init ==
    /\ Fresh
    /\ PyFresh
    /\ body = [s \in Sources |-> SourceBody(s)]
    /\ srcEnv = [s \in Sources |-> "unknown"]
    /\ probeEnv = {}
    /\ valEnv = {}
    /\ now = 2
    /\ run = 1
    /\ firstWorking = {}

-----------------------------------------------------------------------------
(* Stage 1: scrape_all_sources and its workers *)

\* what lines 124-125 can end in: a response with a good status, an exception of
\* session.get (timeout, refused connection, retries used up) or the HTTPError of
\* raise_for_status
SrcOutcomes == {"ok", "transport_error", "http_error"}

\* lines 108-109: one task per source is submitted to the pool
SubmitScrape ==
    /\ pc = "Idle"
    /\ pc' = "Fetching"
    /\ wpc' = [s \in Sources |-> "get"]
    /\ UNCHANGED <<body, attempts, pyvars, srcEnv, probeEnv, valEnv, widx, wcount, wcur,
                   werr, proxies, qsnap, qstate, valid_proxies, vstart, vstate, now,
                   artifacts, lastReg, validated, run, firstWorking>>

\* where a worker goes once element or line idx - 1 of its response is done
\* (mode "json": the loops of lines 134-176; mode "text": the loop of lines 184-189)
AfterText(b, idx) ==
    IF idx <= Len(b.lines) THEN [pc |-> "text", idx |-> idx]
    ELSE [pc |-> "done", idx |-> idx]

AfterStep(b, mode, idx, count) ==
    IF mode = "json"
    THEN IF idx <= Len(JsonElements(b.json)) THEN [pc |-> "json", idx |-> idx]
         ELSE IF count = 0 THEN AfterText(b, 1)
         ELSE [pc |-> "done", idx |-> idx]
    ELSE AfterText(b, idx)

\* lines 124-130: the request. A failure (timeout, refused connection, error status)
\* is caught by the handler of line 191: the worker returns count = 0.
ScrapeGet(s) ==
    /\ wpc[s] = "get"
    /\ \E r \in SrcOutcomes :
          /\ srcEnv[s] \in {"unknown", r}
          /\ srcEnv' = [srcEnv EXCEPT ![s] = r]
          /\ IF r = "ok"
             THEN LET to == IF body[s].ctype = "json"
                            THEN AfterStep(body[s], "json", 1, 0)
                            ELSE AfterStep(body[s], "text", 1, 0)
                  IN  /\ wpc' = [wpc EXCEPT ![s] = to.pc]
                      /\ widx' = [widx EXCEPT ![s] = to.idx]
                      /\ werr' = werr
             ELSE /\ wpc' = [wpc EXCEPT ![s] = "done"]
                  /\ werr' = [werr EXCEPT ![s] = TRUE]
                  /\ widx' = widx
    /\ UNCHANGED <<pc, body, attempts, pyvars, probeEnv, valEnv, wcount, wcur, proxies,
                   qsnap, qstate, valid_proxies, vstart, vstate, now, artifacts,
                   lastReg, validated, run, firstWorking>>

\* lines 135-153 / 158-176 for one element: build the Proxy and enter _add_proxy
\* (lines 217-223); the store of line 225 is the worker's next step
ScrapeJsonItem(s) ==
    /\ wpc[s] = "json"
    /\ LET st == ItemStep(JsonElements(body[s].json)[widx[s]])
       IN  CASE st.r = "abort" ->
                  /\ wpc' = [wpc EXCEPT ![s] = "done"]
                  /\ werr' = [werr EXCEPT ![s] = TRUE]
                  /\ UNCHANGED <<widx, wcount, wcur>>
             [] st.r = "skip" ->
                  LET to == AfterStep(body[s], "json", widx[s] + 1, wcount[s])
                  IN  /\ wpc' = [wpc EXCEPT ![s] = to.pc]
                      /\ widx' = [widx EXCEPT ![s] = to.idx]
                      /\ UNCHANGED <<wcount, wcur, werr>>
             [] st.r = "add" /\ AddProxyAccepts(st.p[1]) ->
                  /\ wpc' = [wpc EXCEPT ![s] = "store_json"]
                  /\ wcur' = [wcur EXCEPT ![s] = st.p]
                  /\ UNCHANGED <<widx, wcount, werr>>
             [] OTHER ->
                  LET to == AfterStep(body[s], "json", widx[s] + 1, wcount[s] + 1)
                  IN  /\ wpc' = [wpc EXCEPT ![s] = to.pc]
                      /\ widx' = [widx EXCEPT ![s] = to.idx]
                      /\ wcount' = [wcount EXCEPT ![s] = wcount[s] + 1]
                      /\ UNCHANGED <<wcur, werr>>
    /\ UNCHANGED <<pc, body, attempts, pyvars, srcEnv, probeEnv, valEnv, proxies, qsnap,
                   qstate, valid_proxies, vstart, vstate, now, artifacts, lastReg,
                   validated, run, firstWorking>>

\* lines 184-188 for one line: strip, parse, and enter _add_proxy
ScrapeTextLine(s) ==
    /\ wpc[s] = "text"
    /\ LET p == _parse_proxy_from_text(strip(body[s].lines[widx[s]]))
       IN  CASE p = <<>> ->
                  LET to == AfterStep(body[s], "text", widx[s] + 1, wcount[s])
                  IN  /\ wpc' = [wpc EXCEPT ![s] = to.pc]
                      /\ widx' = [widx EXCEPT ![s] = to.idx]
                      /\ UNCHANGED <<wcount, wcur>>
             [] p # <<>> /\ AddProxyAccepts(p[1]) ->
                  /\ wpc' = [wpc EXCEPT ![s] = "store_text"]
                  /\ wcur' = [wcur EXCEPT ![s] = p]
                  /\ UNCHANGED <<widx, wcount>>
             [] OTHER ->
                  LET to == AfterStep(body[s], "text", widx[s] + 1, wcount[s] + 1)
                  IN  /\ wpc' = [wpc EXCEPT ![s] = to.pc]
                      /\ widx' = [widx EXCEPT ![s] = to.idx]
                      /\ wcount' = [wcount EXCEPT ![s] = wcount[s] + 1]
                      /\ UNCHANGED wcur
    /\ UNCHANGED <<pc, body, attempts, pyvars, srcEnv, probeEnv, valEnv, werr, proxies,
                   qsnap, qstate, valid_proxies, vstart, vstate, now, artifacts,
                   lastReg, validated, run, firstWorking>>

\* line 225, self.proxies[proxy.address] = proxy, run by the fetch worker itself,
\* then count += 1 (line 151, 174 or 189)
_add_proxy(s) ==
    /\ wpc[s] \in {"store_json", "store_text"}
    /\ proxies' = DictSet(proxies, wcur[s][1])
    /\ lastReg' = {q \in lastReg : address(q) # address(wcur[s][1])} \cup {wcur[s][1]}
    /\ LET mode == IF wpc[s] = "store_json" THEN "json" ELSE "text"
           to == AfterStep(body[s], mode, widx[s] + 1, wcount[s] + 1)
       IN  /\ wpc' = [wpc EXCEPT ![s] = to.pc]
           /\ widx' = [widx EXCEPT ![s] = to.idx]
    /\ wcount' = [wcount EXCEPT ![s] = wcount[s] + 1]
    /\ wcur' = [wcur EXCEPT ![s] = <<>>]
    /\ UNCHANGED <<pc, body, attempts, pyvars, srcEnv, probeEnv, valEnv, werr, qsnap,
                   qstate, valid_proxies, vstart, vstate, now, artifacts, validated,
                   run, firstWorking>>

\* lines 110-116: the driver takes the result of a finished task
ScrapeCollect(s) ==
    /\ pc = "Fetching"
    /\ wpc[s] = "done"
    /\ wpc' = [wpc EXCEPT ![s] = "collected"]
    /\ UNCHANGED <<pc, body, attempts, pyvars, srcEnv, probeEnv, valEnv, widx, wcount,
                   wcur, werr, proxies, qsnap, qstate, valid_proxies, vstart, vstate,
                   now, artifacts, lastReg, validated, run, firstWorking>>

-----------------------------------------------------------------------------
(* Stage 2: quick_filter_proxies *)

\* AllScraped without the wait for the tasks
AllScrapedNoWait == TRUE

\* AllScraped when the failure of a source stops the driver
AllScrapedNoFailure == \A s \in Sources : wpc[s] = "collected" /\ ~werr[s]

\* the executor of line 108 has been left: every task is finished and its result taken
AllScraped == \A s \in Sources : wpc[s] = "collected"

\* lines 233-236, entered when scrape_all_sources has returned (its `with` block
\* waits for every task): one probe task per proxy of the registry
SubmitProbes ==
    /\ pc = "Fetching"
    /\ AllScraped
    /\ pc' = "QuickFiltering"
    /\ qsnap' = proxies
    /\ qstate' = [i \in 1..Len(proxies) |-> "running"]
    /\ valid_proxies' = <<>>
    /\ UNCHANGED <<body, attempts, pyvars, srcEnv, probeEnv, valEnv, wpc, widx, wcount,
                   wcur, werr, proxies, vstart, vstate, now, artifacts, lastReg,
                   validated, run, firstWorking>>

\* what sock.connect_ex can end in for a (str, int) address
ProbeOutcomes == {"open", "closed"}

\* lines 250-259. connect_ex raises TypeError for an ip that is no str, and the
\* bare except turns that into False.
_socket_check(i) ==
    /\ pc = "QuickFiltering"
    /\ qstate[i] = "running"
    /\ LET k == address(qsnap[i])
       IN  IF qsnap[i].ip.t = "int"
           THEN /\ qstate' = [qstate EXCEPT ![i] = "false"]
                /\ probeEnv' = probeEnv
           ELSE \E r \in ProbeOutcomes :
                   /\ \A e \in probeEnv : e.k = k => e.r = r
                   /\ probeEnv' = probeEnv \cup {[k |-> k, r |-> r]}
                   /\ qstate' = [qstate EXCEPT
                                    ![i] = IF r = "open" THEN "true" ELSE "false"]
    /\ UNCHANGED <<pc, body, attempts, pyvars, srcEnv, valEnv, wpc, widx, wcount, wcur,
                   werr, proxies, qsnap, valid_proxies, vstart, vstate, now, artifacts,
                   lastReg, validated, run, firstWorking>>

\* KeepIfValid without the test of is_valid
KeepAlways(valid, p, is_valid) == DictSet(valid, p)

\* what the driver does with the result of a probe (lines 241-243)
KeepIfValid(valid, p, is_valid) == IF is_valid THEN DictSet(valid, p) ELSE valid

\* lines 238-245: the driver takes the result of a finished probe
ProbeCollect(i) ==
    /\ pc = "QuickFiltering"
    /\ qstate[i] \in {"true", "false"}
    /\ valid_proxies' = KeepIfValid(valid_proxies, qsnap[i], qstate[i] = "true")
    /\ qstate' = [qstate EXCEPT ![i] = "collected"]
    /\ UNCHANGED <<pc, body, attempts, pyvars, srcEnv, probeEnv, valEnv, wpc, widx,
                   wcount, wcur, werr, proxies, qsnap, vstart, vstate, now, artifacts,
                   lastReg, validated, run, firstWorking>>

\* AllProbed without the wait for the probes
AllProbedNoWait == TRUE

\* the executor of line 235 has been left: every probe is finished and its result taken
AllProbed == \A i \in 1..Len(qstate) : qstate[i] = "collected"

\* line 247, self.proxies = valid_proxies, once the `with` block has waited for
\* every probe; then validate_proxies starts (lines 266-270)
ReplaceRegistry ==
    /\ pc = "QuickFiltering"
    /\ AllProbed
    /\ proxies' = valid_proxies
    /\ pc' = "Validating"
    /\ vstart' = 0
    /\ vstate' = [i \in 1..Len(valid_proxies) |-> "none"]
    /\ validated' = [i \in 1..Len(valid_proxies) |-> <<>>]
    /\ UNCHANGED <<body, attempts, pyvars, srcEnv, probeEnv, valEnv, wpc, widx, wcount,
                   wcur, werr, qsnap, qstate, valid_proxies, now, artifacts, lastReg,
                   run, firstWorking>>

-----------------------------------------------------------------------------
(* Stage 3: validate_proxies *)

\* longest round trip measured, in clock units
MaxLatency == 1

\* proxy_list[i:min(i+batch_size, total_proxies)], as positions of proxy_list
Batch(i) == {j \in 1..Len(proxies) : i < j /\ j <= i + VALIDATION_BATCH_SIZE}

\* BatchCollected without the wait at the end of the `with` block
BatchCollectedNoWait(i) == TRUE

\* the `with` block of line 280 has been left: every task of the batch is finished and
\* its result taken
BatchCollected(i) == \A j \in Batch(i) : vstate[j] = "collected"

\* lines 276-282: the tasks of the batch that starts at vstart are submitted
SubmitBatch ==
    /\ pc = "Validating"
    /\ vstart < Len(proxies)
    /\ \A j \in Batch(vstart) : vstate[j] = "none"
    /\ vstate' = [j \in 1..Len(vstate) |->
                     IF j \in Batch(vstart) THEN "running" ELSE vstate[j]]
    /\ UNCHANGED <<pc, body, attempts, pyvars, srcEnv, probeEnv, valEnv, wpc, widx,
                   wcount, wcur, werr, proxies, qsnap, qstate, valid_proxies, vstart,
                   now, artifacts, lastReg, validated, run, firstWorking>>

\* what the GET through the proxy can end in
ValOutcomes == {"200", "403", "timeout"}

\* ValResult without the test of the status code: any response counts
ValResultAnyResponse(r) == r # "timeout"

\* the return value of _fast_validate_proxy for an outcome (lines 320-327)
ValResult(r) == r = "200"

\* lines 303-327, run by a worker: on a 200 it writes speed and anonymity
_fast_validate_proxy(i) ==
    /\ pc = "Validating"
    /\ vstate[i] = "running"
    /\ \E r \in ValOutcomes, lat \in 1..MaxLatency :
          LET k == address(proxies[i])
              proto == proxies[i].protocol
          IN  /\ \A e \in valEnv : (e.k = k /\ e.proto = proto) => e.r = r
              /\ valEnv' = valEnv \cup {[k |-> k, proto |-> proto, r |-> r]}
              /\ validated' = [validated EXCEPT ![i] = Append(@, r)]
              /\ IF ValResult(r)
                 THEN /\ proxies' = [proxies EXCEPT ![i].speed = lat,
                                                    ![i].anonymity = "unknown"]
                      /\ vstate' = [vstate EXCEPT ![i] = "true"]
                 ELSE /\ proxies' = proxies
                      /\ vstate' = [vstate EXCEPT ![i] = "false"]
    /\ UNCHANGED <<pc, body, attempts, pyvars, srcEnv, probeEnv, wpc, widx, wcount,
                   wcur, werr, qsnap, qstate, valid_proxies, vstart, now, artifacts,
                   lastReg, run, firstWorking>>

\* Checked with the time stamp written for a working proxy only
CheckedStampOnSuccess(p, result, t) ==
    IF result THEN [p EXCEPT !.working = TRUE, !.last_checked = t]
    ELSE [p EXCEPT !.working = FALSE]

\* lines 287-288: the record after its result has been taken at time t
Checked(p, result, t) == [p EXCEPT !.working = result, !.last_checked = t]

\* lines 284-295: the driver takes the result of a finished validation.
\* (_fast_validate_proxy catches whatever the request raises, so future.result()
\* returns and the handler of lines 297-299 is not entered.)
ValidateCollect(i) ==
    /\ pc = "Validating"
    /\ vstate[i] \in {"true", "false"}
    /\ proxies' = [proxies EXCEPT ![i] = Checked(@, vstate[i] = "true", now)]
    /\ now' = now + 1
    /\ vstate' = [vstate EXCEPT ![i] = "collected"]
    /\ UNCHANGED <<pc, body, attempts, pyvars, srcEnv, probeEnv, valEnv, wpc, widx,
                   wcount, wcur, werr, qsnap, qstate, valid_proxies, vstart, artifacts,
                   lastReg, validated, run, firstWorking>>

\* the end of the `with` block of line 280 and the next turn of the loop of line 276
NextBatch ==
    /\ pc = "Validating"
    /\ vstart < Len(proxies)
    /\ \E j \in Batch(vstart) : vstate[j] # "none"
    /\ BatchCollected(vstart)
    /\ vstart' = vstart + VALIDATION_BATCH_SIZE
    /\ UNCHANGED <<pc, body, attempts, pyvars, srcEnv, probeEnv, valEnv, wpc, widx,
                   wcount, wcur, werr, proxies, qsnap, qstate, valid_proxies, vstate,
                   now, artifacts, lastReg, validated, run, firstWorking>>

-----------------------------------------------------------------------------
(* Output and the driver *)

WorkingSet(reg) == {address(reg[i]) : i \in {j \in 1..Len(reg) : reg[j].working}}

\* lines 329-334, called when validate_proxies has returned
save_results ==
    /\ pc = "Validating"
    /\ vstart >= Len(proxies)
    /\ pc' = "Done"
    /\ artifacts' = [written |-> TRUE,
                     working |-> WorkingSet(proxies),
                     all |-> {address(proxies[i]) : i \in 1..Len(proxies)}]
    /\ UNCHANGED <<body, attempts, pyvars, srcEnv, probeEnv, valEnv, wpc, widx, wcount,
                   wcur, werr, proxies, qsnap, qstate, valid_proxies, vstart, vstate,
                   now, lastReg, validated, run, firstWorking>>

\* the job is invoked again: a new process, so a new ProxyScraper with an empty
\* registry; the sources and the endpoints behave as they did
Rerun ==
    /\ pc = "Done"
    /\ run < MaxRuns
    /\ run' = run + 1
    /\ firstWorking' = artifacts.working
    /\ pc' = "Idle"
    /\ wpc' = [s \in Sources |-> "idle"]
    /\ widx' = [s \in Sources |-> 0]
    /\ wcount' = [s \in Sources |-> 0]
    /\ wcur' = [s \in Sources |-> <<>>]
    /\ werr' = [s \in Sources |-> FALSE]
    /\ proxies' = <<>>
    /\ qsnap' = <<>>
    /\ qstate' = <<>>
    /\ valid_proxies' = <<>>
    /\ vstart' = 0
    /\ vstate' = <<>>
    /\ artifacts' = NoArtifacts
    /\ lastReg' = {}
    /\ validated' = <<>>
    /\ attempts' = [s \in Sources |-> <<>>]
    /\ UNCHANGED <<body, pyvars, srcEnv, probeEnv, valEnv, now>>

Next ==
    \/ SubmitScrape
    \/ \E s \in Sources : ScrapeGet(s)
    \/ \E s \in Sources : ScrapeJsonItem(s)
    \/ \E s \in Sources : ScrapeTextLine(s)
    \/ \E s \in Sources : _add_proxy(s)
    \/ \E s \in Sources : ScrapeCollect(s)
    \/ SubmitProbes
    \/ \E i \in 1..Len(qstate) : _socket_check(i)
    \/ \E i \in 1..Len(qstate) : ProbeCollect(i)
    \/ ReplaceRegistry
    \/ SubmitBatch
    \/ \E i \in 1..Len(vstate) : _fast_validate_proxy(i)
    \/ \E i \in 1..Len(vstate) : ValidateCollect(i)
    \/ NextBatch
    \/ save_results

\* one run of the job
Spec == Init /\ [][Next]_vars

\* one run, with every thread scheduled and every network operation returning
FairSpec == Init /\ [][Next]_vars /\ WF_vars(Next)

\* the job run MaxRuns times against the same sources and endpoints
SpecRuns == Init /\ [][Next \/ Rerun]_vars

-----------------------------------------------------------------------------
(* The line parser on drawn text bodies *)

\* the lines the text bodies are drawn from
LineSet ==
    { IpPortLine(1, 2, 3, 4, 8080),                       \* 1.2.3.4:8080
      <<Sp>> \o IpPortLine(5, 6, 7, 8, 65535) \o <<Sp>>,   \* " 5.6.7.8:65535 "
      <<>>,                                               \* the empty line
      <<Other>>,                                          \* not-a-proxy
      IpPortLine(999, 1, 1, 1, 80),                       \* 999.1.1.1:80
      IpPortLine(1, 2, 3, 256, 80),                       \* 1.2.3.256:80
      IpPortLine(1234, 1, 1, 1, 80),                      \* 1234.1.1.1:80
      IpPortLine(1, 2, 3, 4, 0),                          \* 1.2.3.4:0
      IpPortLine(1, 2, 3, 4, 65536),                      \* 1.2.3.4:65536
      IpPortLine(1, 2, 3, 4, 80) \o <<Sp, Other>>,        \* 1.2.3.4:80 extra
      <<Other>> \o IpPortLine(1, 2, 3, 4, 80),            \* x1.2.3.4:80
      <<Num(1), Dot, Num(2), Dot, Num(3), Colon, Num(80)>>,            \* 1.2.3:80
      <<Num(1), Dot, Num(2), Dot, Num(3), Dot, Num(4)>>,               \* 1.2.3.4
      <<Num(1), Dot, Num(2), Dot, Num(3), Dot, Num(4), Colon>> }       \* 1.2.3.4:

LineSeqs == UNION {[1..n -> LineSet] : n \in 1..MaxLines}

\* source 1 answers 200 with a text body drawn from LineSeqs
InitLines ==
    /\ Fresh
    /\ PyFresh
    /\ \E lines \in LineSeqs :
          body = [s \in Sources |->
                     IF s = 1 THEN Response("text", JsonInvalid, lines)
                     ELSE SourceBody(s)]
    /\ srcEnv = [s \in Sources |-> IF s = 1 THEN "ok" ELSE "unknown"]
    /\ probeEnv = {}
    /\ valEnv = {}
    /\ now = 2
    /\ run = 1
    /\ firstWorking = {}

\* the worker of source 1 alone
NextLines ==
    \/ SubmitScrape
    \/ ScrapeGet(1)
    \/ ScrapeTextLine(1)
    \/ _add_proxy(1)
    \/ ScrapeCollect(1)

SpecLines == InitLines /\ [][NextLines]_vars

-----------------------------------------------------------------------------
(* The request of scrape_source, attempt by attempt *)

\* Retry(total=2): the number of retries the adapter of the session allows
RETRY_TOTAL == 2

\* status_forcelist with 404 added
status_forcelist_with_404 == {404, 429, 500, 502, 503, 504}

\* the statuses after which the adapter retries
status_forcelist == {429, 500, 502, 503, 504}

\* what one attempt of the GET can end in: a response with a status, or an error
\* of the transport (timeout, refused or broken connection)
Status(n) == [t |-> "status", v |-> n]
TransportError == [t |-> "error", v |-> 0]
AttemptOutcomes == {Status(n) : n \in {200, 404} \cup status_forcelist} \cup {TransportError}

\* the adapter retries after this outcome, if it has a retry left
is_retry(o) == o.t = "error" \/ o.v \in status_forcelist

\* line 125: raise_for_status raises for a client or server error status
raise_for_status(o) == o.t = "status" /\ o.v >= 400 /\ o.v < 600

\* lines 124-130 with the attempts of session.get as single steps. After an outcome
\* that is retried the worker stays in the call while retries are left; when they are
\* used up session.get raises. A response that is not retried is returned, and
\* raise_for_status raises on an error status. Either exception is caught by the
\* handler of line 191: the worker returns count = 0.
GetAttempt(s) ==
    /\ wpc[s] = "get"
    /\ \E o \in AttemptOutcomes :
          /\ attempts' = [attempts EXCEPT ![s] = Append(@, o)]
          /\ IF is_retry(o) /\ Len(attempts[s]) < RETRY_TOTAL
             THEN UNCHANGED <<srcEnv, wpc, widx, werr>>
             ELSE IF is_retry(o) \/ raise_for_status(o)
             THEN /\ srcEnv' = [srcEnv EXCEPT ![s] =
                                   IF is_retry(o) THEN "transport_error"
                                   ELSE "http_error"]
                  /\ wpc' = [wpc EXCEPT ![s] = "done"]
                  /\ werr' = [werr EXCEPT ![s] = TRUE]
                  /\ widx' = widx
             ELSE LET to == IF body[s].ctype = "json"
                            THEN AfterStep(body[s], "json", 1, 0)
                            ELSE AfterStep(body[s], "text", 1, 0)
                  IN  /\ srcEnv' = [srcEnv EXCEPT ![s] = "ok"]
                      /\ wpc' = [wpc EXCEPT ![s] = to.pc]
                      /\ widx' = [widx EXCEPT ![s] = to.idx]
                      /\ werr' = werr
    /\ UNCHANGED <<pc, body, pyvars, probeEnv, valEnv, wcount, wcur, proxies, qsnap,
                   qstate, valid_proxies, vstart, vstate, now, artifacts, lastReg,
                   validated, run, firstWorking>>

\* the worker of source 1 alone, its request taken attempt by attempt
NextRetry ==
    \/ SubmitScrape
    \/ GetAttempt(1)
    \/ ScrapeTextLine(1)
    \/ _add_proxy(1)
    \/ ScrapeCollect(1)

SpecRetry == Init /\ [][NextRetry]_vars

-----------------------------------------------------------------------------
(* The structured parser of scrape_source on bounded responses *)

\* longest sequence of elements in a drawn document
MaxItems == 2

\* a JSON document that is neither a sequence nor a mapping
JsonScalar ==
    [shape |-> "other", items |-> <<>>, data |-> <<>>, proxies |-> <<>>,
     itemsKey |-> <<>>, results |-> <<>>]

ItemSet ==
    { Item(Str4(1, 2, 3, 4), JInt(8080)),                    \* {"ip":"1.2.3.4","port":8080}
      Item(Str4(5, 6, 7, 8), NumStr(3128)),                  \* {"ip":"5.6.7.8","port":"3128"}
      Item(Str4(1, 2, 3, 4), Absent),                        \* {"ip":"1.2.3.4"}
      Item(Str4(9, 9, 9, 9), Text),                          \* {"ip":"9.9.9.9","port":"http"}
      Item(Str4(9, 9, 9, 9), JInf),                          \* {"ip":"9.9.9.9","port":1e999}
      Item(Str4(300, 1, 1, 1), JInt(80)),                    \* {"ip":"300.1.1.1","port":80}
      [Item(Absent, Absent) EXCEPT !.dict = FALSE] }         \* "1.2.3.4:8080", a string

ItemSeqs == UNION {[1..n -> ItemSet] : n \in 0..MaxItems}

\* The responses drawn. The text of a JSON document has no line that is a proxy
\* (such a line is no JSON); a body that does not decode may have one.
JsonBodies ==
    {Response("json", JsonList(items), << <<Other>> >>) : items \in ItemSeqs}
    \cup {Response("json", JsonDict(items, <<>>, <<>>, <<>>), << <<Other>> >>) :
             items \in ItemSeqs}
    \cup {Response("json", JsonScalar, << <<Other>> >>)}
    \cup {Response(ctype, JsonInvalid, <<l>>) :
             ctype \in {"json", "text"}, l \in {IpPortLine(1, 2, 3, 4, 8080), <<Other>>}}

\* source 1 answers 200 with a response drawn from JsonBodies
InitJson ==
    /\ Fresh
    /\ PyFresh
    /\ \E b \in JsonBodies :
          body = [s \in Sources |-> IF s = 1 THEN b ELSE SourceBody(s)]
    /\ srcEnv = [s \in Sources |-> IF s = 1 THEN "ok" ELSE "unknown"]
    /\ probeEnv = {}
    /\ valEnv = {}
    /\ now = 2
    /\ run = 1
    /\ firstWorking = {}

\* the worker of source 1 alone
NextJson ==
    \/ SubmitScrape
    \/ ScrapeGet(1)
    \/ ScrapeJsonItem(1)
    \/ ScrapeTextLine(1)
    \/ _add_proxy(1)
    \/ ScrapeCollect(1)

SpecJson == InitJson /\ [][NextJson]_vars

-----------------------------------------------------------------------------
(* validate_proxies on bounded registries *)

\* most records in a drawn registry
MaxRegistry == 3

\* the endpoints 10.0.0.1:80, 10.0.0.2:80, ...
Registry(n) == [i \in 1..n |-> Proxy(Str4(10, 0, 0, i), 80)]

\* The state in which quick_filter_proxies has returned, for a run in which source 1
\* answered a text body with the n endpoints of Registry(n), the requests to the other
\* sources failed, and every probe found its port open.
InitValidate ==
    /\ PyFresh
    /\ \E n \in 0..MaxRegistry :
          LET lines == IF n = 0 THEN << <<>> >>
                       ELSE [i \in 1..n |-> IpPortLine(10, 0, 0, i, 80)]
              reg == Registry(n)
          IN  /\ body = [s \in Sources |->
                            IF s = 1 THEN Response("text", JsonInvalid, lines)
                            ELSE SourceBody(s)]
              /\ widx = [s \in Sources |-> IF s = 1 THEN Len(lines) + 1 ELSE 0]
              /\ wcount = [s \in Sources |-> IF s = 1 THEN n ELSE 0]
              /\ proxies = reg
              /\ qsnap = reg
              /\ qstate = [i \in 1..n |-> "collected"]
              /\ valid_proxies = reg
              /\ vstate = [i \in 1..n |-> "none"]
              /\ validated = [i \in 1..n |-> <<>>]
              /\ lastReg = {reg[i] : i \in 1..n}
              /\ probeEnv = {[k |-> address(reg[i]), r |-> "open"] : i \in 1..n}
    /\ pc = "Validating"
    /\ srcEnv = [s \in Sources |-> IF s = 1 THEN "ok" ELSE "transport_error"]
    /\ wpc = [s \in Sources |-> "collected"]
    /\ wcur = [s \in Sources |-> <<>>]
    /\ werr = [s \in Sources |-> s # 1]
    /\ attempts = [s \in Sources |-> <<>>]
    /\ vstart = 0
    /\ valEnv = {}
    /\ artifacts = NoArtifacts
    /\ now = 2
    /\ run = 1
    /\ firstWorking = {}

\* validate_proxies and the save that follows it
NextValidate ==
    \/ SubmitBatch
    \/ \E i \in 1..Len(vstate) : _fast_validate_proxy(i)
    \/ \E i \in 1..Len(vstate) : ValidateCollect(i)
    \/ NextBatch
    \/ save_results

SpecValidate == InitValidate /\ [][NextValidate]_vars

-----------------------------------------------------------------------------
(* proxies.py: fetch_proxies, get_proxies and save_proxies *)

\* the state of update_proxies.py, which proxies.py does not touch
scraperVars ==
    <<pc, body, srcEnv, probeEnv, valEnv, wpc, widx, wcount, wcur, werr, proxies,
      qsnap, qstate, valid_proxies, vstart, vstate, now, artifacts, lastReg,
      validated, run, firstWorking, attempts>>

\* re.match(r'^\d{1,3}\.\d{1,3}\.\d{1,3}\.\d{1,3}:\d+$', line) of proxies.py
PyLineMatch(line) == IpPortMatch(line)

\* the set fetch_proxies builds from a 200 response: the stripped lines that match
PyAccepted(b) ==
    {strip(b.lines[i]) : i \in {j \in 1..Len(b.lines) : PyLineMatch(strip(b.lines[j]))}}

\* what requests.get can end in: status 200, another status, or an exception
PyOutcomes == {"200", "other", "error"}

\* get_proxies submits one task per source
PySubmit ==
    /\ pypc = "Idle"
    /\ pypc' = "Fetching"
    /\ pyfut' = [s \in Sources |-> "running"]
    /\ UNCHANGED <<scraperVars, pyres, pyproxies, pytxt>>

\* fetch_proxies(SOURCES[s]), run by a worker: the set of matching lines of a 200
\* response, else the empty set
fetch_proxies(s) ==
    /\ pyfut[s] = "running"
    /\ \E o \in PyOutcomes :
          pyres' = [pyres EXCEPT ![s] = IF o = "200" THEN PyAccepted(body[s]) ELSE {}]
    /\ pyfut' = [pyfut EXCEPT ![s] = "done"]
    /\ UNCHANGED <<scraperVars, pypc, pyproxies, pytxt>>

\* proxies.update(future.result()) for a finished task
PyUpdate(s) ==
    /\ pypc = "Fetching"
    /\ pyfut[s] = "done"
    /\ pyproxies' = pyproxies \cup pyres[s]
    /\ pyfut' = [pyfut EXCEPT ![s] = "taken"]
    /\ UNCHANGED <<scraperVars, pypc, pyres, pytxt>>

\* get_proxies returns sorted(proxies) and save_proxies writes it, one entry a line
\* (the entries are kept as a set: the order of the file is not represented)
save_proxies ==
    /\ pypc = "Fetching"
    /\ \A s \in Sources : pyfut[s] = "taken"
    /\ pytxt' = pyproxies
    /\ pypc' = "Saved"
    /\ UNCHANGED <<scraperVars, pyfut, pyres, pyproxies>>

NextPy ==
    \/ PySubmit
    \/ \E s \in Sources : fetch_proxies(s)
    \/ \E s \in Sources : PyUpdate(s)
    \/ save_proxies

\* proxies.py run once; source 1 answers a text body drawn from LineSeqs
SpecPy == InitLines /\ [][NextPy]_vars

-----------------------------------------------------------------------------
(* Properties *)

Addresses(reg) == {address(reg[i]) : i \in 1..Len(reg)}

\* a syntactically valid IP literal: a string of four decimal octets
IsIpLiteral(x) == x.t = "str4" /\ Len(x.v) = 4 /\ \A i \in 1..4 : x.v[i] \in 0..255

\* the workers that are inside the registering operation
InsideAddProxy == {s \in Sources : wpc[s] \in {"store_json", "store_text"}}

\* C1: every record stored in the registry has an address that is a syntactically
\* valid IP literal and a port in 1..65535.
C1_StoredAreValid ==
    \A i \in 1..Len(proxies) :
        IsIpLiteral(proxies[i].ip) /\ proxies[i].port \in 1..65535

\* C2: the registry never holds two records for one endpoint, and while candidates
\* are registered the record of an endpoint is the candidate registered last for it.
C2_LastWriteWins ==
    /\ \A i, j \in 1..Len(proxies) :
          address(proxies[i]) = address(proxies[j]) => i = j
    /\ pc \in {"Idle", "Fetching"} => {proxies[i] : i \in 1..Len(proxies)} = lastReg

\* sources 1 and 2 have both registered 1.2.3.4:8080, source 1 last: the one record
\* of the endpoint is the one of source 1 (scheme http, no metadata)
C2_Witness ==
    /\ pc = "Fetching"
    /\ srcEnv[1] = "ok" /\ widx[1] >= 2
    /\ srcEnv[2] = "ok" /\ widx[2] >= 2
    /\ Proxy(Str4(1, 2, 3, 4), 8080) \in lastReg
    /\ \E i \in 1..Len(proxies) : proxies[i] = Proxy(Str4(1, 2, 3, 4), 8080)

\* C3: during the fetch stage no fetch worker is inside the registering operation
\* (only the driver registers), so no two threads are inside it at the same time.
C3_OnlyDriverRegisters ==
    /\ InsideAddProxy = {}
    /\ Cardinality(InsideAddProxy) <= 1

FetchRunning ==
    \E s \in Sources : wpc[s] \in {"get", "json", "text", "store_json", "store_text"}
ProbeRunning == \E i \in 1..Len(qstate) : qstate[i] = "running"
ValidationRunning == \E i \in 1..Len(vstate) : vstate[i] = "running"

\* C4: no probe task exists while a fetch task is running, no validation task exists
\* while a probe task is running, and the output is not written while a validation
\* task is running.
C4_StageBarrier ==
    /\ (pc \in {"QuickFiltering", "Validating", "Done"} \/ Len(qstate) > 0)
          => ~FetchRunning
    /\ (pc \in {"Validating", "Done"} \/ \E i \in 1..Len(vstate) : vstate[i] # "none")
          => ~ProbeRunning
    /\ (pc = "Done" \/ artifacts.written) => ~ValidationRunning

\* a validation task runs, after probes that ran after fetches that stored proxies
C4_Witness ==
    /\ pc = "Validating"
    /\ ValidationRunning
    /\ Len(qstate) >= 2
    /\ \E s \in Sources : wcount[s] > 0

\* C5: before the validation stage no record of the registry is working; afterwards
\* a record is working only if the last response received for it was a 200.
C5_WorkingOnlyAfter200 ==
    /\ pc \in {"Idle", "Fetching", "QuickFiltering"} =>
          /\ \A i \in 1..Len(proxies) : ~proxies[i].working
          /\ \A i \in 1..Len(valid_proxies) : ~valid_proxies[i].working
          /\ \A s \in Sources : wcur[s] # <<>> => ~wcur[s][1].working
    /\ pc \in {"Validating", "Done"} =>
          \A i \in 1..Len(proxies) :
              proxies[i].working =>
                  validated[i] # <<>> /\ validated[i][Len(validated[i])] = "200"

\* the run is over with a record that is working and one whose validation got a 403
C5_Witness ==
    /\ pc = "Done"
    /\ \E i \in 1..Len(proxies) : proxies[i].working
    /\ \E i \in 1..Len(proxies) : ~proxies[i].working /\ validated[i] = <<"403">>

\* the probe of proxy p failed: connect_ex raised or returned an error
ProbeFailed(p) ==
    p.ip.t = "int" \/ [k |-> address(p), r |-> "closed"] \in probeEnv

\* C6: once validation has started, a proxy whose probe failed is not in the
\* registry, and no validation request has been made through it.
C6_FailedProbeNotValidated ==
    pc \in {"Validating", "Done"} =>
        \A i \in 1..Len(qsnap) :
            ProbeFailed(qsnap[i]) =>
                /\ address(qsnap[i]) \notin Addresses(proxies)
                /\ \A e \in valEnv : e.k # address(qsnap[i])

\* validation runs for a proxy that passed its probe, while another one whose
\* connect was refused was dropped
C6_Witness ==
    /\ pc = "Validating"
    /\ ValidationRunning
    /\ \E i \in 1..Len(qsnap) :
          qsnap[i].ip.t = "str4" /\ ProbeFailed(qsnap[i])

\* the endpoints a response offers: the well-formed elements of the structured
\* document when there are any, else the well-formed lines
WellFormedItem(item) ==
    /\ item.dict
    /\ IsIpLiteral(ItemIp(item))
    /\ item.port.t \in {"int", "numstr"}
    /\ item.port.v[1] \in 1..65535

WellFormedLine(l) ==
    LET t == strip(l)
    IN  /\ Len(t) = 9
        /\ \A i \in {1, 3, 5, 7} : t[i].t = "num" /\ t[i].v \in 0..255
        /\ \A i \in {2, 4, 6} : t[i].t = "dot"
        /\ t[8].t = "colon"
        /\ t[9].t = "num" /\ t[9].v \in 1..65535

LineEndpoint(l) ==
    LET t == strip(l) IN <<Str4(t[1].v, t[3].v, t[5].v, t[7].v), t[9].v>>

Offered(b) ==
    LET items == IF b.ctype = "json" THEN JsonElements(b.json) ELSE <<>>
        fromJson == {<<ItemIp(items[i]), items[i].port.v[1]>> :
                        i \in {j \in 1..Len(items) : WellFormedItem(items[j])}}
        fromText == {LineEndpoint(b.lines[i]) :
                        i \in {j \in 1..Len(b.lines) : WellFormedLine(b.lines[j])}}
    IN  IF fromJson # {} THEN fromJson ELSE fromText

\* C7: when the fetch stage is complete, the registry holds every valid endpoint
\* offered by each source whose request did not fail, and a source whose request
\* failed has contributed nothing.
C7_OtherSourcesRegistered ==
    (pc = "Fetching" /\ AllScraped) =>
        \A s \in Sources :
            /\ srcEnv[s] = "ok" => Offered(body[s]) \subseteq Addresses(proxies)
            /\ srcEnv[s] # "ok" => wcount[s] = 0

StageOrder ==
    {<<"Idle", "Fetching">>, <<"Fetching", "QuickFiltering">>,
     <<"QuickFiltering", "Validating">>, <<"Validating", "Done">>}

\* C8: every run goes through the stages in order, reaches Done and writes its
\* artifacts.
C8_RunCompletes ==
    /\ <>(pc = "Done" /\ artifacts.written)
    /\ [][pc' # pc => <<pc, pc'>> \in StageOrder]_vars

\* the run is over, every source having failed: the artifacts of an empty registry
C8_Witness ==
    /\ pc = "Done"
    /\ artifacts.written
    /\ \A s \in Sources : srcEnv[s] \notin {"ok", "unknown"}
    /\ artifacts.all = {}

\* C9: a second run against the same sources and endpoints writes the working set
\* the first run wrote.
C9_SameWorkingSet ==
    (run > 1 /\ pc = "Done") => artifacts.working = firstWorking


\* C10: the lines of a text body handled so far have registered exactly the
\* endpoints of those that are, once trimmed, a whole-line <IPv4>:<port> with
\* octets in 0..255 and a port in 1..65535; when the worker is done this is
\* all the lines of the body, whatever lines come before or after.
C10_ExactlyValidLines ==
    wpc[1] \in {"text", "done", "collected"} =>
        /\ Addresses(proxies) =
              {LineEndpoint(body[1].lines[i]) :
                  i \in {j \in 1..(widx[1] - 1) : WellFormedLine(body[1].lines[j])}}
        /\ wpc[1] \in {"done", "collected"} => widx[1] = Len(body[1].lines) + 1

\* a body whose first line is no proxy and whose second line is one has been parsed
\* to its end, and the second line is registered
C10_Witness ==
    /\ wpc[1] = "done"
    /\ Len(body[1].lines) >= 2
    /\ ~WellFormedLine(body[1].lines[1])
    /\ WellFormedLine(body[1].lines[2])
    /\ LineEndpoint(body[1].lines[2]) \in Addresses(proxies)

\* C11: when the parse of a JSON sequence is over, every well-formed element of
\* the sequence is registered and the parse was not aborted, whatever elements
\* without an address or a port, or with a field that does not convert, stand
\* before or after it.
C11_BadElementSkippedAlone ==
    \A s \in Sources :
        (/\ pc = "Fetching"
         /\ wpc[s] \in {"done", "collected"}
         /\ srcEnv[s] = "ok"
         /\ body[s].ctype = "json"
         /\ body[s].json.shape = "list") =>
            /\ ~werr[s]
            /\ LET items == JsonElements(body[s].json)
               IN  \A i \in 1..Len(items) :
                      WellFormedItem(items[i]) =>
                          <<ItemIp(items[i]), items[i].port.v[1]>>
                              \in Addresses(proxies)

\* the record the quick filter saw for the record at position i of the registry
\* that is being validated: its fields before any validation wrote to it
BeforeValidation(i) ==
    CHOOSE q \in {qsnap[j] : j \in 1..Len(qsnap)} : address(q) = address(proxies[i])

\* the positions of the registry whose validation result has been taken
Collected == {i \in 1..Len(proxies) : vstate[i] = "collected"}

\* C12: after a validation attempt that did not end in a 200 response the record
\* has working = FALSE and the latency it had before (or 0); and every attempt
\* whose result has been taken, whatever its outcome, has left its own clock
\* reading in last_checked: the readings of the attempts taken so far are the
\* last Cardinality(Collected) values of the clock.
C12_FailedAttemptRecord ==
    pc \in {"Validating", "Done"} =>
        /\ \A i \in Collected :
              validated[i] # <<"200">> =>
                  /\ ~proxies[i].working
                  /\ proxies[i].speed \in {BeforeValidation(i).speed, 0}
        /\ {proxies[i].last_checked : i \in Collected}
              = (now - Cardinality(Collected))..(now - 1)
        /\ \A i, j \in Collected :
              proxies[i].last_checked = proxies[j].last_checked => i = j

\* a record that came with a latency and a time stamp from its source has failed
\* its validation: it keeps the latency and carries the time of the attempt
C12_Witness ==
    /\ pc = "Validating"
    /\ \E i \in Collected :
          /\ validated[i] = <<"timeout">>
          /\ BeforeValidation(i).speed # 0
          /\ proxies[i].speed = BeforeValidation(i).speed
          /\ ~proxies[i].working
          /\ proxies[i].last_checked # BeforeValidation(i).last_checked
          /\ proxies[i].last_checked = now - 1

\* C13: a record that has not had a successful validation has latency 0, in the
\* registry and in the hands of the worker that parsed it.
C13_LatencyZeroBeforeValidation ==
    /\ \A s \in Sources : \A i \in 1..Len(wcur[s]) : wcur[s][i].speed = 0
    /\ \A i \in 1..Len(proxies) :
          (pc \in {"Fetching", "QuickFiltering"} \/ "200" \notin
               {validated[i][n] : n \in 1..Len(validated[i])}) =>
              proxies[i].speed = 0

\* C14: a record whose source supplied a non-empty anonymity level still has
\* that level after its validation, whatever the outcome was.
C14_SourcedAnonymityKept ==
    pc \in {"Validating", "Done"} =>
        \A i \in 1..Len(proxies) :
            (Len(validated[i]) > 0 /\ BeforeValidation(i).anonymity # "") =>
                proxies[i].anonymity = BeforeValidation(i).anonymity

\* the outcomes the claim names as retried: a transient status or a transport error
Transient(o) == o.t = "error" \/ o.v \in {429, 500, 502, 503, 504}

BeforeLines == {"get", "json", "store_json"}

\* C16: a worker turns to the lines of a response only with no candidate from
\* the structured parse, and a worker whose structured parse of a fetched
\* response ends with no candidate does turn to the lines: it does not finish
\* without having parsed them.
C16_LinesIffNoCandidate ==
    [][\A s \in Sources :
          /\ (wpc[s] \in BeforeLines /\ wpc'[s] = "text") => wcount'[s] = 0
          /\ (wpc[s] \in BeforeLines /\ wpc'[s] = "done" /\ srcEnv'[s] = "ok")
                => wcount'[s] > 0]_vars

\* the number of the batch that position i of the list of records falls in, when
\* the list is cut into consecutive pieces of VALIDATION_BATCH_SIZE
BatchOf(i) == (i - 1) \div VALIDATION_BATCH_SIZE

\* the validation tasks that have been started and have not yet returned
InFlight == {i \in 1..Len(vstate) : vstate[i] = "running"}

\* C17: the tasks in flight belong to one batch and are at most
\* VALIDATION_BATCH_SIZE; a task of a later batch has started only when every
\* task of every earlier batch has finished and its result has been taken; the list
\* validated is the registry validation began with; no record is validated twice,
\* and when validation is over every record has been validated once.
C17_BatchesInSequence ==
    pc \in {"Validating", "Done"} =>
        /\ Cardinality(InFlight) <= VALIDATION_BATCH_SIZE
        /\ \A i, j \in InFlight : BatchOf(i) = BatchOf(j)
        /\ \A i, j \in 1..Len(vstate) :
              (BatchOf(i) < BatchOf(j) /\ vstate[j] # "none") => vstate[i] = "collected"
        /\ Len(proxies) = Len(valid_proxies)
        /\ \A i \in 1..Len(proxies) :
              /\ address(proxies[i]) = address(valid_proxies[i])
              /\ Len(validated[i]) <= 1
              /\ pc = "Done" => Len(validated[i]) = 1

\* a registry of more than one batch: a task of the second batch is in flight
\* while the first batch is finished
C17_Witness ==
    /\ pc = "Validating"
    /\ Len(proxies) > VALIDATION_BATCH_SIZE
    /\ \E j \in InFlight : BatchOf(j) = 1
    /\ \A i \in 1..VALIDATION_BATCH_SIZE : vstate[i] = "collected"

\* C18: while quick_filter_proxies runs, a step either leaves the registry as it
\* is, or it is the one replacement: every probe task has completed and its
\* result has been taken, and the new registry holds, once each, exactly the
\* records of the old registry whose probe succeeded, field for field.
C18_FilterReplacesOnce ==
    [][pc = "QuickFiltering" =>
          \/ proxies' = proxies /\ pc' = "QuickFiltering"
          \/ /\ pc' = "Validating"
             /\ \A i \in 1..Len(qstate) : qstate[i] = "collected"
             /\ {proxies'[i] : i \in 1..Len(proxies')}
                   = {proxies[i] : i \in {j \in 1..Len(proxies) : ~ProbeFailed(proxies[j])}}
             /\ \A i, j \in 1..Len(proxies') :
                   address(proxies'[i]) = address(proxies'[j]) => i = j]_vars

\* the registry has just been replaced: a record has survived and one was dropped
C18_Witness ==
    /\ pc = "Validating"
    /\ vstart = 0
    /\ \A i \in 1..Len(vstate) : vstate[i] = "none"
    /\ Len(proxies) >= 1
    /\ Len(proxies) < Len(qsnap)
    /\ \A i \in 1..Len(proxies) : proxies[i] \in {qsnap[j] : j \in 1..Len(qsnap)}

\* C19: every entry that fetch_proxies has returned, that get_proxies holds, or
\* that has been written to proxies.txt is a whole-line <IPv4>:<port> with each
\* octet in 0..255 and the port in 1..65535.
C19_EntriesInRange ==
    \A e \in pytxt \cup pyproxies \cup UNION {pyres[s] : s \in Sources} :
        WellFormedLine(e)

\* C20: when the fetch stage is complete, the endpoint keys of the registry are
\* exactly the valid endpoints offered by the sources whose request did not
\* fail, whatever the interleaving of the workers was.
C20_KeysAreUnionOfOffered ==
    (pc = "Fetching" /\ \A s \in Sources : wpc[s] = "collected") =>
        Addresses(proxies)
            = UNION {Offered(body[s]) : s \in {t \in Sources : srcEnv[t] = "ok"}}

====
